---- MODULE Spec2Model ----
(***************************************************************************)
(* Model of the radix route tree of qq51529210/http-router (src/route.go)  *)
(* and of the operations rootRoute.Add / Find / Remove / Match.            *)
(*                                                                         *)
(* Strings are sequences of one-byte strings: "/ab" is <<"/","a","b">>.    *)
(* The heap is a sequence of Route records; a *Route is an index into it,  *)
(* Nil is 0, and &r.route (the root embedded in rootRoute) is index 1.     *)
(***************************************************************************)
EXTENDS Integers, Sequences, FiniteSets, TLC

VARIABLES heap, pre, last, nops, reg, pure, node, regH, tidy

\* The Router: its nine trees, its chains, the context pool, the call that
\* has just returned, the trees before it and the number of Add and Remove
\* calls.  History: rreg is the set of <<tree index, pattern, handlers>> of
\* the successful Router.Add calls whose pattern no successful Router.Remove
\* on that tree took since.
VARIABLES trees, chains, pool, srv, rpre, rops, rreg

\* A call of one of the string functions of route.go: its arguments and
\* what it returned.
VARIABLES arg, val

\* One tree shared by a Router.Add and two Match calls that run without
\* serialization, statement by statement: the tree, the tree before the
\* Add, the Add's and each Match's locals and position, and what a Find
\* between the calls returned.
VARIABLES ct, ct0, adder, ms, fnd

tvars == <<heap, pre, last, nops, reg, pure, node, regH, tidy>>

rvars == <<trees, chains, pool, srv, rpre, rops, rreg>>

svars == <<arg, val>>

cvars == <<ct, ct0, adder, ms, fnd>>

vars == <<tvars, rvars, svars, cvars>>

(* ------------------------------ bounds -------------------------------- *)

\* Number of tree-mutating calls (Add, Router.Add, Remove) in one history.
MaxOps == 3

MaxRouterOps == 2

MaxFalse == 2

\* Length of the strings handed to diffString, and of the patterns handed
\* to splitRoute.
MaxLen == 3

MaxPat == 4

\* Number of Router.Add calls that build the tree the unserialized calls
\* meet.
MaxBase == 1

(* ------------------------------ strings ------------------------------- *)

\* The bytes that occur in the patterns and URL paths of the model, in
\* ascending byte order ('*' 0x2A, '.' 0x2E, '/' 0x2F, ':' 0x3A, 'a', 'b').
ByteOrder == <<"*", ".", "/", ":", "a", "b">>

Byte == {ByteOrder[i] : i \in 1..Len(ByteOrder)}

Nil == 0

Root == 1

Colon == <<":">>

Star == <<"*">>

Slash == <<"/">>

\* s[i:] of Go, i counted from 0.
From(s, i) == SubSeq(s, i + 1, Len(s))

\* s[:i] of Go.
Upto(s, i) == SubSeq(s, 1, i)

RECURSIVE CommonLen(_, _)
\* Number of leading bytes s1 and s2 share (the loop of diffString).
CommonLen(s1, s2) ==
  IF s1 = <<>> \/ s2 = <<>> \/ Head(s1) # Head(s2) THEN 0
  ELSE 1 + CommonLen(Tail(s1), Tail(s2))

\* diffString cutting one byte before the first difference.
diffAt_OneEarly(s1, s2, i) ==
  IF i > 0 THEN <<From(s1, i - 1), From(s2, i - 1)>> ELSE <<s1, s2>>

\* The return statement of diffString: s1[i:], s2[i:].
diffAt(s1, s2, i) == <<From(s1, i), From(s2, i)>>

\* diffString: the two inputs with their common prefix removed.
diffString(s1, s2) ==
  IF s1 = <<>> \/ s2 = <<>> THEN <<s1, s2>>
  ELSE diffAt(s1, s2, CommonLen(s1, s2))

RECURSIVE SplitAcc(_, _, _)
SplitAcc(s, cur, acc) ==
  IF s = <<>> THEN Append(acc, cur)
  ELSE IF Head(s) = "/" THEN SplitAcc(Tail(s), <<>>, Append(acc, cur))
  ELSE SplitAcc(Tail(s), Append(cur, Head(s)), acc)

\* strings.Split(s, "/")
SplitSlash(s) == SplitAcc(s, <<>>, <<>>)

RECURSIVE JoinSlash(_)
\* strings.Join(parts, "/")
JoinSlash(parts) ==
  IF parts = <<>> THEN <<>>
  ELSE IF Len(parts) = 1 THEN parts[1]
  ELSE parts[1] \o Slash \o JoinSlash(Tail(parts))

RECURSIVE CleanSegs(_, _, _)
\* The element loop of path.Clean: "" and "." are dropped, ".." removes the
\* last kept element, or is kept (unrooted) or dropped (rooted) if none.
CleanSegs(parts, out, rooted) ==
  IF parts = <<>> THEN out
  ELSE IF Head(parts) = <<>> \/ Head(parts) = <<".">>
    THEN CleanSegs(Tail(parts), out, rooted)
  ELSE IF Head(parts) = <<".", ".">> THEN
    IF out # <<>> /\ out[Len(out)] # <<".", ".">>
      THEN CleanSegs(Tail(parts), Upto(out, Len(out) - 1), rooted)
    ELSE IF rooted THEN CleanSegs(Tail(parts), out, rooted)
    ELSE CleanSegs(Tail(parts), Append(out, Head(parts)), rooted)
  ELSE CleanSegs(Tail(parts), Append(out, Head(parts)), rooted)

\* The end of path.Clean: an empty result is ".".
OrDot(res) == IF res = <<>> THEN <<".">> ELSE res

\* path.Clean of the Go standard library.
Clean(s) ==
  IF s = <<>> THEN <<".">>
  ELSE OrDot((IF Head(s) = "/" THEN Slash ELSE <<>>)
             \o JoinSlash(CleanSegs(SplitSlash(s), <<>>, Head(s) = "/")))

RECURSIVE splitParts(_, _, _, _)
\* The loop of splitRoute over the '/'-separated parts: static is the
\* strings.Builder, isStatic the flag, routePath the tokens so far.
splitParts(part, routePath, static, isStatic) ==
  IF part = <<>> THEN
    IF Len(static) > 0 THEN Append(routePath, static) ELSE routePath
  ELSE IF Head(part) = <<>> \/ Head(part)[1] \notin {":", "*"} THEN
    splitParts(Tail(part), routePath,
               (IF isStatic THEN static \o Slash ELSE static) \o Head(part), TRUE)
  ELSE IF isStatic THEN
    splitParts(Tail(part),
               Append(Append(routePath, static \o Slash), <<Head(part)[1]>>),
               <<>>, FALSE)
  ELSE IF Len(static) > 0 THEN
    splitParts(Tail(part), Append(Append(routePath, static), <<Head(part)[1]>>),
               <<>>, FALSE)
  ELSE splitParts(Tail(part), Append(routePath, <<Head(part)[1]>>), <<>>, FALSE)

\* splitRoute with isStatic := false at the start of the loop.
splitClean_NoLead(c) ==
  IF c = <<>> \/ c = Slash THEN <<Slash>>
  ELSE splitParts(SplitSlash(IF Head(c) = "/" THEN Tail(c) ELSE c), <<>>, <<>>, FALSE)

\* splitRoute after _path = path.Clean(_path).
splitClean(c) ==
  IF c = <<>> \/ c = Slash THEN <<Slash>>
  ELSE splitParts(SplitSlash(IF Head(c) = "/" THEN Tail(c) ELSE c), <<>>, <<>>, TRUE)

\* splitRoute: the token list of a pattern.
splitRoute(path) == splitClean(Clean(path))

(* ------------------------------ the heap ------------------------------ *)

NoStatic == [b \in Byte |-> Nil]

\* new(Route): the zero value.
NewRoute ==
  [name |-> <<>>, path |-> <<>>, Handle |-> <<>>, parent |-> Nil,
   static |-> NoStatic, param |-> Nil]

HasStatic(h, r) == \E b \in Byte : h[r].static[b] # Nil

\* Results of the tree operations: the heap they leave, the *Route they
\* return, the error ("" is nil) and whether the call ended in a run-time
\* panic (index or slice out of range, nil dereference).
Ok(h, r) == [h |-> h, ret |-> r, err |-> "", panic |-> FALSE]

Err(h, e) == [h |-> h, ret |-> Nil, err |-> e, panic |-> FALSE]

Panic(h) == [h |-> h, ret |-> Nil, err |-> "", panic |-> TRUE]

Failed(res) == res.panic \/ res.err # ""

\* Route.add: the new sub route of r (not yet linked into r).
add(h, r, name) ==
  [NewRoute EXCEPT
     !.name = name,
     !.parent = r,
     !.path = IF h[r].name = Star \/ h[r].name = Colon
                THEN h[r].path \o Slash \o name
                ELSE h[r].path \o name]

\* r.param = r.add(name)
linkParam(h, r, name) ==
  Ok(Append([h EXCEPT ![r].param = Len(h) + 1], add(h, r, name)), Len(h) + 1)

\* addSubParam without "Case 2": the static sub routes of r are not looked at.
addSubParam_NoStaticCheck(h, r, name) ==
  IF h[r].param # Nil THEN
    IF h[h[r].param].name # name THEN Err(h, "has a param sub route")
    ELSE Ok(h, h[r].param)
  ELSE linkParam(h, r, name)

\* addSubParam that returns the param sub route of r whatever its name is.
addSubParam_AnyKind(h, r, name) ==
  IF h[r].param # Nil THEN Ok(h, h[r].param)
  ELSE IF HasStatic(h, r) THEN Err(h, "has a static sub route")
  ELSE linkParam(h, r, name)

\* addSubParam that does not reuse a param sub route of the same name but
\* puts a new one in its place.
addSubParam_NeverReuses(h, r, name) ==
  IF h[r].param # Nil /\ h[h[r].param].name # name
    THEN Err(h, "has a param sub route")
  ELSE IF h[r].param = Nil /\ HasStatic(h, r) THEN Err(h, "has a static sub route")
  ELSE linkParam(h, r, name)

\* Route.addSubParam
addSubParam(h, r, name) ==
  IF h[r].param # Nil THEN
    IF h[h[r].param].name # name THEN Err(h, "has a param sub route")
    ELSE Ok(h, h[r].param)
  ELSE IF HasStatic(h, r) THEN Err(h, "has a static sub route")
  ELSE linkParam(h, r, name)

\* The new sub route filed under the last byte of its name.
linkStatic_LastByte(h, r, name) ==
  Ok(Append([h EXCEPT ![r].static[name[Len(name)]] = Len(h) + 1], add(h, r, name)),
     Len(h) + 1)

\* r.static[name[0]] = r.add(name)
linkStatic(h, r, name) ==
  Ok(Append([h EXCEPT ![r].static[name[1]] = Len(h) + 1], add(h, r, name)),
     Len(h) + 1)

RECURSIVE addStatic(_, _, _)
RECURSIVE addSubStatic(_, _, _)
RECURSIVE moveToNewSub(_, _, _)

\* Route.addSubStatic
addSubStatic(h, r, name) ==
  IF h[r].param # Nil THEN Err(h, "has a param sub route")
  ELSE IF h[r].static[name[1]] # Nil THEN addStatic(h, h[r].static[name[1]], name)
  ELSE linkStatic(h, r, name)

\* The end of moveToNewSub with the saved handlers left behind.
moveData_DropsHandle(res, handle, staic, param) ==
  IF Failed(res) THEN res
  ELSE Ok([res.h EXCEPT ![res.ret].static = staic,
                        ![res.ret].param = param], res.ret)

\* The end of moveToNewSub: res is what r.addSubStatic(name) returned, and
\* the new sub route takes the saved handlers and children.  The parent
\* fields of the moved children are not written.
moveData(res, handle, staic, param) ==
  IF Failed(res) THEN res
  ELSE Ok([res.h EXCEPT ![res.ret].Handle = handle,
                        ![res.ret].static = staic,
                        ![res.ret].param = param], res.ret)

\* Route.moveToNewSub: r keeps the common prefix, a new sub route named
\* name takes r's handlers and children.
moveToNewSub(h, r, name) ==
  IF Len(h[r].path) < Len(name) THEN Panic(h)
  ELSE moveData(addSubStatic([h EXCEPT ![r].path = Upto(@, Len(@) - Len(name)),
                                       ![r].name = Upto(@, Len(@) - Len(name)),
                                       ![r].Handle = <<>>,
                                       ![r].static = NoStatic,
                                       ![r].param = Nil], r, name),
                h[r].Handle, h[r].static, h[r].param)

\* "return r, nil" after moveToNewSub (addStatic case 2).
keepRoute(m, r) == IF Failed(m) THEN m ELSE Ok(m.h, r)

\* addStatic case 4 adding diff2 below the new sub route instead of below r.
thenSubStatic_BelowSub(m, r, diff2) ==
  IF Failed(m) THEN m ELSE addSubStatic(m.h, m.ret, diff2)

\* "return r.addSubStatic(diff2)" after moveToNewSub (addStatic case 4).
thenSubStatic(m, r, diff2) == IF Failed(m) THEN m ELSE addSubStatic(m.h, r, diff2)

\* Cases 2 to 4 of addStatic with case 2 returning the new sub route
\* instead of r.
addDiff_ReturnsSub(h, r, d) ==
  IF d[2] = <<>> THEN moveToNewSub(h, r, d[1])
  ELSE IF d[1] = <<>> THEN
    IF h[r].static[d[2][1]] # Nil
      THEN addStatic(h, h[r].static[d[2][1]], d[2])
      ELSE linkStatic(h, r, d[2])
  ELSE thenSubStatic(moveToNewSub(h, r, d[1]), r, d[2])

\* Cases 2 to 4 of addStatic; d is <<diff1, diff2>>.
addDiff(h, r, d) ==
  IF d[2] = <<>> THEN keepRoute(moveToNewSub(h, r, d[1]), r)
  ELSE IF d[1] = <<>> THEN
    IF h[r].static[d[2][1]] # Nil
      THEN addStatic(h, h[r].static[d[2][1]], d[2])
      ELSE linkStatic(h, r, d[2])
  ELSE thenSubStatic(moveToNewSub(h, r, d[1]), r, d[2])

\* Route.addStatic
addStatic(h, r, name) ==
  IF h[r].name = Colon THEN addSubStatic(h, r, name)
  ELSE IF h[r].name = name THEN Ok(h, r)
  ELSE addDiff(h, r, diffString(h[r].name, name))

\* What the Add loop sees at the route it stands on when it takes a token.
Step(h, route, name) ==
  [tok |-> name, at |-> route, atName |-> h[route].name,
   hasStatic |-> HasStatic(h, route),
   param |-> IF h[route].param = Nil THEN <<>> ELSE h[h[route].param].name,
   paramId |-> h[route].param]

\* What rootRoute.Add returns, with the steps it took.
AddRes(h, r, err, panic, steps) ==
  [h |-> h, ret |-> r, err |-> err, panic |-> panic, steps |-> steps]

RECURSIVE AddLoop(_, _, _, _)

\* The end of one round of the Add loop: res is what addSubParam or
\* addStatic returned for the token.
AddNext(res, rest, steps) ==
  IF Failed(res) THEN AddRes(res.h, Nil, res.err, res.panic, steps)
  ELSE AddLoop(res.h, res.ret, rest, steps)

\* One round of the Add loop after the "all match route" test.
AddToken(h, route, routePath, steps) ==
  AddNext(IF Head(routePath) = Colon \/ Head(routePath) = Star
            THEN addSubParam(h, route, Head(routePath))
            ELSE addStatic(h, route, Head(routePath)),
          Tail(routePath),
          Append(steps, Step(h, route, Head(routePath))))

\* The Add loop without the "all match route" test.
AddLoop_NoStarCheck(h, route, routePath, steps) ==
  IF routePath = <<>> THEN AddRes(h, route, "", FALSE, steps)
  ELSE AddToken(h, route, routePath, steps)

\* The Add loop that goes on below a '*' route as addStatic does below a
\* ':' route, instead of refusing.
AddLoop_StarLikeColon(h, route, routePath, steps) ==
  IF routePath = <<>> THEN AddRes(h, route, "", FALSE, steps)
  ELSE IF h[route].name = Star /\ Head(routePath) \notin {Colon, Star}
    THEN AddNext(addSubStatic(h, route, Head(routePath)), Tail(routePath),
                 Append(steps, Step(h, route, Head(routePath))))
  ELSE AddToken(h, route, routePath, steps)

\* The "Add sub route loop" of rootRoute.Add.  steps records Step for every
\* token taken.
AddLoop(h, route, routePath, steps) ==
  IF routePath = <<>> THEN AddRes(h, route, "", FALSE, steps)
  ELSE IF h[route].name = Star
    THEN AddRes(h, Nil, "is a all match route", FALSE,
                Append(steps, Step(h, route, Head(routePath))))
  ELSE AddToken(h, route, routePath, steps)

\* rootRoute.Add after splitRoute.
addTokens(h, routePath) ==
  IF h[Root].name = <<>>
    THEN AddLoop([h EXCEPT ![Root].name = routePath[1],
                           ![Root].path = routePath[1]],
                 Root, Tail(routePath), <<>>)
    ELSE AddLoop(h, Root, routePath, <<>>)

\* rootRoute.Add
rootAdd(h, path) == addTokens(h, splitRoute(path))

(* -------------------------------- Find --------------------------------- *)

\* A loop that has run more often than Fuel(h) times walks a cycle of the
\* heap; such a call never returns.
Fuel(h) == 2 * Len(h) + 2

Found(r) == [ret |-> r, hang |-> FALSE]

Hang == [ret |-> Nil, hang |-> TRUE]

\* route is nil or its name is no prefix of name (the test of both loops
\* of Find).
Diverges(h, route, name) ==
  \/ route = Nil
  \/ Len(h[route].name) > Len(name)
  \/ h[route].name # Upto(name, Len(h[route].name))

RECURSIVE findRoot(_, _, _, _)
\* The first loop of Find ("r must be static route"): route may be Nil.
findRoot(h, route, name, fuel) ==
  IF fuel = 0 THEN Hang
  ELSE IF Diverges(h, route, name) THEN Found(Nil)
  ELSE IF Len(h[route].name) = Len(name) THEN Found(route)
  ELSE findRoot(h, h[route].static[name[Len(h[route].name) + 1]],
                From(name, Len(h[route].name)), fuel - 1)

RECURSIVE findStatic(_, _, _, _)
\* The inner loop of Find for a static token below route.
findStatic(h, route, name, fuel) ==
  IF fuel = 0 THEN Hang
  ELSE IF Diverges(h, h[route].static[name[1]], name) THEN Found(Nil)
  ELSE IF Len(h[h[route].static[name[1]]].name) = Len(name)
    THEN Found(h[route].static[name[1]])
  ELSE findStatic(h, h[route].static[name[1]],
                  From(name, Len(h[h[route].static[name[1]]].name)), fuel - 1)

RECURSIVE findSub(_, _, _)

\* Find goes on below the route f found for the token before, if any.
findNext(h, f, routePath) ==
  IF f.hang \/ f.ret = Nil THEN f ELSE findSub(h, f.ret, routePath)

\* The "Check sub" loop of Find.
findSub(h, route, routePath) ==
  IF routePath = <<>> THEN Found(route)
  ELSE IF Head(routePath)[1] = "*" \/ Head(routePath)[1] = ":" THEN
    IF h[route].param = Nil \/ h[h[route].param].name # Head(routePath)
      THEN Found(Nil)
      ELSE findSub(h, h[route].param, Tail(routePath))
  ELSE findNext(h, findStatic(h, route, Head(routePath), Fuel(h)), Tail(routePath))

\* rootRoute.Find after splitRoute.
findTokens(h, routePath) ==
  findNext(h, findRoot(h, Root, routePath[1], Fuel(h)), Tail(routePath))

\* rootRoute.Find
rootFind(h, path) == findTokens(h, splitRoute(path))

(* ------------------------------- Remove ------------------------------- *)

\* The populated slots of r.static in index order, as the counting loop of
\* Remove meets them.
StaticSlots(h, r) ==
  SelectSeq(ByteOrder, LAMBDA b : h[r].static[b] # Nil)

\* Remove's join block, first half: route takes path and handlers of sub,
\* and sub's name is appended to its name.
joinFields(h, route, sub) ==
  [h EXCEPT ![route].path = h[sub].path,
            ![route].Handle = h[sub].Handle,
            ![route].name = @ \o h[sub].name]

\* Remove's join block, the loop: route.static becomes kids and every route
\* in kids gets route as its parent.
joinStatic(h, route, kids) ==
  [n \in 1..Len(h) |->
     IF n = route
       THEN [h[n] EXCEPT !.static = kids,
                         !.parent = IF \E b \in Byte : kids[b] = n THEN route ELSE @]
     ELSE IF \E b \in Byte : kids[b] = n THEN [h[n] EXCEPT !.parent = route]
     ELSE h[n]]

\* Remove's join block, second half.
joinKids(h, route, sub) ==
  IF h[sub].param # Nil
    THEN [h EXCEPT ![h[sub].param].parent = route]
    ELSE joinStatic(h, route, h[sub].static)

\* Remove's join block: sub is read from route.static, where route is the
\* route being removed.
joinSub(h, route, sub) == joinKids(joinFields(h, route, sub), route, sub)

RemoveRes(h, ok, panic, hang) == [h |-> h, ok |-> ok, panic |-> panic, hang |-> hang]

\* route.parent with route taken out of its slot.
detach(h, route) ==
  IF h[route].name[1] = ":" \/ h[route].name[1] = "*"
    THEN [h EXCEPT ![h[route].parent].param = Nil]
    ELSE [h EXCEPT ![h[route].parent].static[h[route].name[1]] = Nil]

RECURSIVE removeLoop(_, _, _)

\* One round of the Remove loop after route has left its parent's slot;
\* static is the list of the parent's populated static slots.
removeJoin(h, route, parent, static, fuel) ==
  IF Len(static) > 1 THEN RemoveRes(h, TRUE, FALSE, FALSE)
  ELSE IF Len(static) = 1 THEN
    IF h[route].static[static[1]] = Nil THEN RemoveRes(h, FALSE, TRUE, FALSE)
    ELSE removeLoop(joinSub(h, route, h[route].static[static[1]]), parent, fuel - 1)
  ELSE removeLoop(h, parent, fuel - 1)

\* One round of the Remove loop after route has left its parent's slot.
removeClimb(h, route, parent, fuel) ==
  IF Len(h[parent].Handle) > 0 THEN RemoveRes(h, TRUE, FALSE, FALSE)
  ELSE IF h[parent].name # Colon /\ h[parent].name # Star
    THEN removeJoin(h, route, parent, StaticSlots(h, parent), fuel)
  ELSE removeLoop(h, parent, fuel - 1)

\* The for loop of Remove, climbing from the found route.
removeLoop(h, route, fuel) ==
  IF fuel = 0 THEN RemoveRes(h, FALSE, FALSE, TRUE)
  ELSE IF route = Root THEN
    RemoveRes([h EXCEPT ![Root].path = <<>>, ![Root].Handle = <<>>,
                        ![Root].name = <<>>, ![Root].static = NoStatic,
                        ![Root].param = Nil], TRUE, FALSE, FALSE)
  ELSE IF h[route].parent = Nil \/ h[route].name = <<>>
    THEN RemoveRes(h, FALSE, TRUE, FALSE)
  ELSE removeClimb(detach(h, route), route, h[route].parent, fuel)

\* rootRoute.Remove after Find.
removeFound(h, f) ==
  IF f.hang THEN RemoveRes(h, FALSE, FALSE, TRUE)
  ELSE IF f.ret = Nil THEN RemoveRes(h, FALSE, FALSE, FALSE)
  ELSE removeLoop(h, f.ret, Fuel(h))

\* rootRoute.Remove
rootRemove(h, path) == removeFound(h, rootFind(h, path))

(* -------------------------------- Match ------------------------------- *)

MatchRes(r, param, panic, hang) ==
  [ret |-> r, Param |-> param, panic |-> panic, hang |-> hang]

\* Index of the first '/' of path at or after index i (0-based), or -1.
RECURSIVE NextSlash(_, _)
NextSlash(path, i) ==
  IF i >= Len(path) THEN -1
  ELSE IF path[i + 1] = "/" THEN i
  ELSE NextSlash(path, i + 1)

RECURSIVE matchLoop(_, _, _, _, _)
RECURSIVE matchParam(_, _, _, _, _)

\* ParamLoop at a ":" sub route; i is the index of the next '/' or -1.
matchColon(h, route, path, param, fuel, i) ==
  IF i >= 0
    THEN matchParam(h, h[route].param, From(path, i + 1),
                    Append(param, Upto(path, i)), fuel - 1)
    ELSE MatchRes(h[route].param, Append(param, path), FALSE, FALSE)

\* ParamLoop of Match and the static step after it; path is the rest of the
\* URL path after route's name.
matchParam(h, route, path, param, fuel) ==
  IF fuel = 0 THEN MatchRes(Nil, param, FALSE, TRUE)
  ELSE IF h[route].param # Nil THEN
    IF h[h[route].param].name = Colon
      THEN matchColon(h, route, path, param, fuel, NextSlash(path, 1))
      ELSE MatchRes(h[route].param, Append(param, path), FALSE, FALSE)
  ELSE IF path = <<>> THEN MatchRes(Nil, param, TRUE, FALSE)
  ELSE IF h[route].static[path[1]] # Nil
    THEN matchLoop(h, h[route].static[path[1]], path, param, fuel - 1)
  ELSE MatchRes(Nil, param, FALSE, FALSE)

\* Loop of Match.
matchLoop(h, route, path, param, fuel) ==
  IF fuel = 0 THEN MatchRes(Nil, param, FALSE, TRUE)
  ELSE IF Len(h[route].name) < Len(path) THEN
    IF Upto(path, Len(h[route].name)) = h[route].name
      THEN matchParam(h, route, From(path, Len(h[route].name)), param, fuel)
      ELSE MatchRes(Nil, param, FALSE, FALSE)
  ELSE IF path = h[route].name THEN MatchRes(route, param, FALSE, FALSE)
  ELSE MatchRes(Nil, param, FALSE, FALSE)

\* rootRoute.Match on a context whose Param list is param and whose
\* request has URL path path.
rootMatch(h, path, param) == matchLoop(h, Root, path, param, Fuel(h) + Len(path))

(* ------------------------------ the Router ----------------------------- *)

\* The method names of net/http.
MethodGet == <<"G", "E", "T">>

MethodHead == <<"H", "E", "A", "D">>

MethodPost == <<"P", "O", "S", "T">>

MethodPut == <<"P", "U", "T">>

MethodPatch == <<"P", "A", "T", "C", "H">>

MethodDelete == <<"D", "E", "L", "E", "T", "E">>

MethodConnect == <<"C", "O", "N", "N", "E", "C", "T">>

MethodOptions == <<"O", "P", "T", "I", "O", "N", "S">>

MethodTrace == <<"T", "R", "A", "C", "E">>

\* The indices of Router.rootRoute.
RootIndex == 0..8

\* What Router.root returns: the index of a tree (-1 for nil), or a run-time
\* panic (index out of range).
RootRes(i, panic) == [i |-> i, panic |-> panic]

\* Router.root with the tests of the second byte moved before the tests of
\* the first: CONNECT lands on POST's tree.
root_SecondByteFirst(method) ==
  IF Len(method) < 2 THEN RootRes(-1, TRUE)
  ELSE IF method[2] = "O" THEN RootRes(6, FALSE)
  ELSE IF method[2] = "U" THEN RootRes(7, FALSE)
  ELSE IF method[2] = "A" THEN RootRes(8, FALSE)
  ELSE IF method[1] = "G" THEN RootRes(0, FALSE)
  ELSE IF method[1] = "H" THEN RootRes(1, FALSE)
  ELSE IF method[1] = "D" THEN RootRes(2, FALSE)
  ELSE IF method[1] = "C" THEN RootRes(3, FALSE)
  ELSE IF method[1] = "O" THEN RootRes(4, FALSE)
  ELSE IF method[1] = "T" THEN RootRes(5, FALSE)
  ELSE RootRes(-1, FALSE)

\* Router.root
root(method) ==
  IF Len(method) < 1 THEN RootRes(-1, TRUE)
  ELSE IF method[1] = "G" THEN RootRes(0, FALSE)
  ELSE IF method[1] = "H" THEN RootRes(1, FALSE)
  ELSE IF method[1] = "D" THEN RootRes(2, FALSE)
  ELSE IF method[1] = "C" THEN RootRes(3, FALSE)
  ELSE IF method[1] = "O" THEN RootRes(4, FALSE)
  ELSE IF method[1] = "T" THEN RootRes(5, FALSE)
  ELSE IF Len(method) < 2 THEN RootRes(-1, TRUE)
  ELSE IF method[2] = "O" THEN RootRes(6, FALSE)
  ELSE IF method[2] = "U" THEN RootRes(7, FALSE)
  ELSE IF method[2] = "A" THEN RootRes(8, FALSE)
  ELSE RootRes(-1, FALSE)

\* A Context: the fields the chains can leave something in.
NewContext == [Param |-> <<>>, Data |-> "nil"]

\* contextPool.Get(): a context that was put back, or a new one.
poolGet(p) == IF p = <<>> THEN NewContext ELSE Head(p)

\* ServeHTTP with a context that still holds a capture and user data.
acquire_Stale(p) == [Param |-> <<<<"b">>>>, Data |-> "h1"]

\* The head of ServeHTTP: c := contextPool.Get(), c.Param = c.Param[:0],
\* c.Data = nil.
acquire(p) == [poolGet(p) EXCEPT !.Param = <<>>, !.Data = "nil"]

\* The hooks of list that "for _, h := range list { if !h(c) { break } }"
\* calls, when hook h returns rets[h].
aborted(list, rets) == \E j \in 1..Len(list) : ~rets[list[j]]

\* The loop without its break.
RunLen_NoBreak(list, rets) == Len(list)

RunLen(list, rets) ==
  IF aborted(list, rets)
    THEN CHOOSE j \in 1..Len(list) :
           ~rets[list[j]] /\ \A k \in 1..(j - 1) : rets[list[k]]
    ELSE Len(list)

\* The calls of that loop in order: chain name, hook, position, result.
runChain(name, list, rets) ==
  SubSeq([j \in 1..Len(list) |->
            [chain |-> name, h |-> list[j], i |-> j, ret |-> rets[list[j]]]],
         1, RunLen(list, rets))

\* What a ServeHTTP call did: the hook calls in order, the phases it
\* entered, the context as the first hook called found it, whether it ended
\* in a run-time panic, the number of contextPool.Put calls, and the pool
\* it left.
ServeRes(log, phases, first, panic, puts, p) ==
  [log |-> log, phases |-> phases, first |-> first, panic |-> panic,
   puts |-> puts, pool |-> p]

\* The context as the first hook called finds it: param is c.Param after
\* Match.
firstSeen(ch, c, param) ==
  IF ch.before # <<>> THEN c ELSE [c EXCEPT !.Param = param]

\* ServeHTTP from "// Notfound." on.
serveNotfound(ch, rets, c, p, param) ==
  ServeRes(runChain("before", ch.before, rets)
             \o runChain("notfound", ch.notfound, rets)
             \o runChain("after", ch.after, rets),
           <<"before", "notfound", "after">>, firstSeen(ch, c, param), FALSE, 0, p)

\* ServeHTTP after rootRoute.Match returned m on the tree h.
serveMatched(h, ch, rets, c, p, m) ==
  IF m.panic \/ m.hang
    THEN ServeRes(runChain("before", ch.before, rets), <<"before">>, c, TRUE, 0, p)
  ELSE IF m.ret # Nil /\ Len(h[m.ret].Handle) > 0
    THEN ServeRes(runChain("before", ch.before, rets)
                    \o runChain("handle", h[m.ret].Handle, rets)
                    \o runChain("after", ch.after, rets),
                  <<"before", "handle", "after">>, firstSeen(ch, c, m.Param),
                  FALSE, 0, p)
  ELSE serveNotfound(ch, rets, c, p, m.Param)

\* ServeHTTP after r.root(req.Method) returned r.
serveRoot(t, ch, path, rets, c, p, r) ==
  IF r.panic
    THEN ServeRes(runChain("before", ch.before, rets), <<"before">>, c, TRUE, 0, p)
  ELSE IF r.i = -1 THEN serveNotfound(ch, rets, c, p, c.Param)
  ELSE serveMatched(t[r.i], ch, rets, c, p, rootMatch(t[r.i], path, c.Param))

\* The before chain without the early return: a false before hook wastes
\* nothing of the rest of the request.
serveBefore_GoesOn(t, ch, method, path, rets, c, p) ==
  serveRoot(t, ch, path, rets, c, p, root(method))

\* ServeHTTP after its head: the before chain.
serveBefore(t, ch, method, path, rets, c, p) ==
  IF aborted(ch.before, rets)
    THEN ServeRes(runChain("before", ch.before, rets)
                    \o runChain("after", ch.after, rets),
                  <<"before", "after">>, c, FALSE, 0, p)
    ELSE serveRoot(t, ch, path, rets, c, p, root(method))

\* Router.ServeHTTP for a request with the given method and URL path, on a
\* router with trees t, chains ch and context pool p.
ServeHTTP(t, ch, p, method, path, rets) ==
  serveBefore(t, ch, method, path, rets, acquire(p), p)

\* The end of Router.Add: route.Handle = handleFunc unless Add failed.
setHandle(res, hs) ==
  IF Failed(res) THEN res ELSE [res EXCEPT !.h[res.ret].Handle = hs]

\* The trees after a call that left the tree h where r.root(method)
\* returned r: without a tree nothing changes.
treesAfter(t, r, h) ==
  IF r.panic \/ r.i = -1 THEN t ELSE [t EXCEPT ![r.i] = h]

\* Router.Add after r.root(method) returned r.
routerAddAt(t, r, path, hs) ==
  IF r.panic THEN Panic(<<>>)
  ELSE IF r.i = -1 THEN Err(<<>>, "invalid http method")
  ELSE setHandle(rootAdd(t[r.i], path), hs)

\* Router.Remove after r.root(method) returned r.
routerRemoveAt(t, r, path) ==
  IF r.panic THEN RemoveRes(<<>>, FALSE, TRUE, FALSE)
  ELSE IF r.i = -1 THEN RemoveRes(<<>>, FALSE, FALSE, FALSE)
  ELSE rootRemove(t[r.i], path)

\* What Router.Route returns.
RouteRes(f, panic) == [ret |-> f.ret, hang |-> f.hang, panic |-> panic]

\* Router.Route after r.root(method) returned r.
routerRouteAt(t, r, path) ==
  IF r.panic THEN RouteRes(Found(Nil), TRUE)
  ELSE IF r.i = -1 THEN RouteRes(Found(Nil), FALSE)
  ELSE RouteRes(rootFind(t[r.i], path), FALSE)

(* --------------------------- calls in steps --------------------------- *)

\* A Router.Add on one tree, statement by statement.  pc is the statement
\* it stands at; route, toks and name are the locals of rootRoute.Add and
\* addStatic; mv, handle, staic, param, sub and diff2 those of moveToNewSub
\* and of the addStatic case that called it.  split records that the call
\* went through moveToNewSub.
AddCall(pc, path, hs) ==
  [pc |-> pc, path |-> path, hs |-> hs, route |-> Root, toks |-> <<>>,
   name |-> <<>>, mv |-> <<>>, handle |-> <<>>, staic |-> NoStatic,
   param |-> Nil, sub |-> Nil, diff2 |-> <<>>, err |-> "", panic |-> FALSE,
   split |-> FALSE]

\* One statement of the Add: the tree and the call after it.
Stepped(h, a) == [h |-> h, a |-> a]

\* The call a goes on at route r with statement pc.
GoOn(h, a, r, pc) == Stepped(h, [a EXCEPT !.route = r, !.pc = pc])

\* The call returns res.err or panics.
GiveUp(a, res) ==
  [a EXCEPT !.pc = "done", !.err = res.err, !.panic = res.panic]

\* The call has linked a sub route or found it in place (res), or failed.
Linked(a, res, pc) ==
  IF Failed(res) THEN Stepped(res.h, GiveUp(a, res))
  ELSE GoOn(res.h, a, res.ret, pc)

\* rootRoute.Add: "if route.name == "" { route.name = routePath[0]".
stepInit(h, a) ==
  IF h[Root].name = <<>>
    THEN Stepped([h EXCEPT ![Root].name = a.toks[1]], [a EXCEPT !.pc = "initPath"])
    ELSE Stepped(h, [a EXCEPT !.pc = "token"])

\* "route.path = route.name; routePath = routePath[1:]"
stepInitPath(h, a) ==
  Stepped([h EXCEPT ![Root].path = h[Root].name],
          [a EXCEPT !.pc = "token", !.toks = Tail(@)])

\* One round of the Add loop up to the call of addSubParam or addStatic.
stepToken(h, a) ==
  IF a.toks = <<>> THEN Stepped(h, [a EXCEPT !.pc = "handle"])
  ELSE IF h[a.route].name = Star
    THEN Stepped(h, GiveUp(a, Err(h, "is a all match route")))
  ELSE IF Head(a.toks) = Colon \/ Head(a.toks) = Star
    THEN Linked([a EXCEPT !.toks = Tail(@)],
                addSubParam(h, a.route, Head(a.toks)), "token")
  ELSE Stepped(h, [a EXCEPT !.pc = "static", !.name = Head(a.toks),
                            !.toks = Tail(@)])

\* addStatic after diffString returned d.
stepDiff(h, a, d) ==
  IF d[2] = <<>>
    THEN Stepped(h, [a EXCEPT !.pc = "mvSave", !.mv = d[1], !.diff2 = <<>>])
  ELSE IF d[1] = <<>> THEN
    IF h[a.route].static[d[2][1]] # Nil
      THEN Stepped(h, [a EXCEPT !.route = h[a.route].static[d[2][1]],
                                !.name = d[2]])
      ELSE Linked(a, linkStatic(h, a.route, d[2]), "token")
  ELSE Stepped(h, [a EXCEPT !.pc = "mvSave", !.mv = d[1], !.diff2 = d[2]])

\* Route.addStatic(name) at a.route, up to its first write or call.
stepStatic(h, a) ==
  IF h[a.route].name = Colon THEN Stepped(h, [a EXCEPT !.pc = "sub"])
  ELSE IF h[a.route].name = a.name THEN Stepped(h, [a EXCEPT !.pc = "token"])
  ELSE stepDiff(h, a, diffString(h[a.route].name, a.name))

\* Route.addSubStatic(name) at a.route.
stepSub(h, a) ==
  IF h[a.route].param # Nil
    THEN Stepped(h, GiveUp(a, Err(h, "has a param sub route")))
  ELSE IF h[a.route].static[a.name[1]] # Nil
    THEN GoOn(h, a, h[a.route].static[a.name[1]], "static")
  ELSE Linked(a, linkStatic(h, a.route, a.name), "token")

\* moveToNewSub: "handle := r.Handle; staic := r.static; param := r.param".
stepSave(h, a) ==
  Stepped(h, [a EXCEPT !.pc = "mvPath", !.split = TRUE,
                       !.handle = h[a.route].Handle,
                       !.staic = h[a.route].static,
                       !.param = h[a.route].param])

\* "r.path = r.path[:len(r.path)-len(name)]"
stepPath(h, a) ==
  IF Len(h[a.route].path) < Len(a.mv) THEN Stepped(h, GiveUp(a, Panic(h)))
  ELSE Stepped([h EXCEPT ![a.route].path = Upto(@, Len(@) - Len(a.mv))],
               [a EXCEPT !.pc = "mvName"])

\* "r.name = r.name[:len(r.name)-len(name)]"
stepName(h, a) ==
  IF Len(h[a.route].name) < Len(a.mv) THEN Stepped(h, GiveUp(a, Panic(h)))
  ELSE Stepped([h EXCEPT ![a.route].name = Upto(@, Len(@) - Len(a.mv))],
               [a EXCEPT !.pc = "mvHandle"])

\* "r.Handle = nil"
stepHandle(h, a) ==
  Stepped([h EXCEPT ![a.route].Handle = <<>>], [a EXCEPT !.pc = "mvStatic"])

\* r.removeAllStatic(): the next populated slot is set to nil.
stepClear(h, a) ==
  IF StaticSlots(h, a.route) = <<>> THEN Stepped(h, [a EXCEPT !.pc = "mvParam"])
  ELSE Stepped([h EXCEPT ![a.route].static[StaticSlots(h, a.route)[1]] = Nil], a)

\* "r.param = nil"
stepParam(h, a) ==
  Stepped([h EXCEPT ![a.route].param = Nil], [a EXCEPT !.pc = "mvSub"])

\* The new sub route is in place (res), or addSubStatic failed.
subLinked(a, res) ==
  IF Failed(res) THEN Stepped(res.h, GiveUp(a, res))
  ELSE Stepped(res.h, [a EXCEPT !.sub = res.ret, !.pc = "mvSubHandle"])

\* "sub, err := r.addSubStatic(name)"
stepNewSub(h, a) == subLinked(a, addSubStatic(h, a.route, a.mv))

\* The new sub route gets nothing of what moveToNewSub saved.
subTakes_Nothing(h, sub, handle) == h

\* "sub.Handle = handle"
subTakes(h, sub, handle) == [h EXCEPT ![sub].Handle = handle]

stepSubHandle(h, a) ==
  Stepped(subTakes(h, a.sub, a.handle), [a EXCEPT !.pc = "mvSubStatic"])

\* "sub.static = staic"
stepSubStatic(h, a) ==
  Stepped([h EXCEPT ![a.sub].static = a.staic], [a EXCEPT !.pc = "mvSubParam"])

\* "sub.param = param; return nil", and what addStatic does next: case 2
\* returns r, case 4 calls r.addSubStatic(diff2).
stepSubParam(h, a) ==
  Stepped([h EXCEPT ![a.sub].param = a.param],
          IF a.diff2 = <<>> THEN [a EXCEPT !.pc = "token"]
          ELSE [a EXCEPT !.pc = "sub", !.name = a.diff2])

\* Router.Add: "route.Handle = handleFunc; return route, nil".
stepSetHandle(h, a) ==
  Stepped([h EXCEPT ![a.route].Handle = a.hs], [a EXCEPT !.pc = "done"])

\* The statement the Add stands at.
addStep(h, a) ==
  CASE a.pc = "init" -> stepInit(h, a)
    [] a.pc = "initPath" -> stepInitPath(h, a)
    [] a.pc = "token" -> stepToken(h, a)
    [] a.pc = "static" -> stepStatic(h, a)
    [] a.pc = "sub" -> stepSub(h, a)
    [] a.pc = "mvSave" -> stepSave(h, a)
    [] a.pc = "mvPath" -> stepPath(h, a)
    [] a.pc = "mvName" -> stepName(h, a)
    [] a.pc = "mvHandle" -> stepHandle(h, a)
    [] a.pc = "mvStatic" -> stepClear(h, a)
    [] a.pc = "mvParam" -> stepParam(h, a)
    [] a.pc = "mvSub" -> stepNewSub(h, a)
    [] a.pc = "mvSubHandle" -> stepSubHandle(h, a)
    [] a.pc = "mvSubStatic" -> stepSubStatic(h, a)
    [] a.pc = "mvSubParam" -> stepSubParam(h, a)
    [] a.pc = "handle" -> stepSetHandle(h, a)

\* Where the Add is: not begun, in progress, returned.
Phase(a) ==
  IF a.pc = "idle" THEN "before" ELSE IF a.pc = "done" THEN "after" ELSE "during"

\* A rootRoute.Match, statement by statement: path, route and i are its
\* locals, Param the list of its own context, last tells whether the ':'
\* capture it appended was the end of the path.  ret and panic are its
\* result, retH the handlers the caller finds at ret; from and to record
\* where the Add was when the Match began and when it returned, amid that
\* another Match was under way when this one began.
MatchCallAt(pc, url, from, amid) ==
  [pc |-> pc, url |-> url, path |-> url, route |-> Root, Param |-> <<>>,
   last |-> FALSE, ret |-> Nil, retH |-> <<>>, panic |-> FALSE,
   from |-> from, to |-> "none", amid |-> amid]

\* "return route": the caller reads route.Handle.
Returns(h, m, r, to) ==
  [m EXCEPT !.pc = "done", !.ret = r, !.to = to,
            !.retH = IF r = Nil THEN <<>> ELSE h[r].Handle]

\* A nil dereference or an index out of range.
Panics(m, to) == [m EXCEPT !.pc = "done", !.panic = TRUE, !.to = to]

\* The tests of route.name at the head of Loop.
mLoop(h, m, to) ==
  IF m.route = Nil THEN Panics(m, to)
  ELSE IF Len(h[m.route].name) < Len(m.path) THEN
    IF Upto(m.path, Len(h[m.route].name)) = h[m.route].name
      THEN [m EXCEPT !.path = From(@, Len(h[m.route].name)), !.pc = "param"]
      ELSE Returns(h, m, Nil, to)
  ELSE IF m.path = h[m.route].name THEN Returns(h, m, m.route, to)
  ELSE Returns(h, m, Nil, to)

\* "for route.param != nil"
mParam(h, m, to) ==
  IF m.route = Nil THEN Panics(m, to)
  ELSE IF h[m.route].param # Nil THEN [m EXCEPT !.pc = "pname"]
  ELSE [m EXCEPT !.pc = "static"]

\* The scan for the next '/' found it at i, or did not (i = -1); the
\* append to c.Param is capture's.
mColon(m, i) ==
  IF i >= 0 THEN [m EXCEPT !.path = From(@, i + 1), !.last = FALSE, !.pc = "take"]
  ELSE [m EXCEPT !.last = TRUE, !.pc = "take"]

\* "if route.param.name == ":"" and the scan, or the all match case.
mName(h, m, to) ==
  IF h[m.route].param = Nil THEN Panics(m, to)
  ELSE IF h[h[m.route].param].name = Colon
    THEN mColon(m, NextSlash(m.path, 1))
  ELSE [m EXCEPT !.last = TRUE, !.pc = "take"]

\* What the statement at pname appends to c.Param.
colonCapture(path, i) == IF i >= 0 THEN <<Upto(path, i)>> ELSE <<path>>

captured(h, m) ==
  IF m.pc # "pname" \/ h[m.route].param = Nil THEN <<>>
  ELSE IF h[h[m.route].param].name = Colon
    THEN colonCapture(m.path, NextSlash(m.path, 1))
  ELSE <<m.path>>

\* "route = route.param" and "continue ParamLoop" or "return route";
\* "return route.param" of the all match case.
mTake(h, m, to) ==
  IF m.last THEN Returns(h, m, h[m.route].param, to)
  ELSE [m EXCEPT !.route = h[m.route].param, !.pc = "param"]

\* "if route.static[path[0]] != nil"
mStatic(h, m, to) ==
  IF m.path = <<>> THEN Panics(m, to)
  ELSE IF h[m.route].static[m.path[1]] # Nil THEN [m EXCEPT !.pc = "takeStatic"]
  ELSE Returns(h, m, Nil, to)

\* "route = route.static[path[0]]; continue Loop"
mTakeStatic(h, m) ==
  [m EXCEPT !.route = h[m.route].static[m.path[1]], !.pc = "loop"]

\* The statement the Match stands at; to is where the Add is.
matchStep(h, m, to) ==
  CASE m.pc = "loop" -> mLoop(h, m, to)
    [] m.pc = "param" -> mParam(h, m, to)
    [] m.pc = "pname" -> mName(h, m, to)
    [] m.pc = "take" -> mTake(h, m, to)
    [] m.pc = "static" -> mStatic(h, m, to)
    [] m.pc = "takeStatic" -> mTakeStatic(h, m)

\* All Match calls appending to one Param list.
capture_OneContext(m, i, vs) ==
  [j \in DOMAIN m |-> [m[j] EXCEPT !.Param = @ \o vs]]

\* "c.Param = append(c.Param, ...)" of the Match call i: each call has the
\* context it was given.
capture(m, i, vs) == [m EXCEPT ![i].Param = @ \o vs]

\* The tree after Router.Add of the patterns ps, one call after the other.
RECURSIVE Built(_, _, _)
Built(h, ps, hs) ==
  IF ps = <<>> THEN h
  ELSE Built(setHandle(rootAdd(h, Head(ps)), hs).h, Tail(ps), hs)

(* ----------------------------- the inputs ------------------------------ *)

\* The patterns handed to Add, Find and Remove.
Patterns ==
  { <<"/">>,
    <<"/", "a">>,
    <<"/", "a", "b">>,
    <<"/", "a", "/", "b">>,
    <<"/", "a", "/", ":">>,
    <<"/", "a", "/", "*">>,
    <<"/", "a", "/", ":", "/", "b">>,
    <<"/", "a", "/", ":", "/", "a">>,
    <<"/", "a", "/", ":", "/", "*">>,
    <<"/", "a", "/", "*", "/", "b">>,
    <<"/", ":">>,
    <<"a", "/", "/", ":", "b", "/">> }

\* The URL paths handed to Match.
Urls ==
  { <<>>,
    <<"/">>,
    <<"/", "a">>,
    <<"/", "a", "b">>,
    <<"/", "a", "/">>,
    <<"/", "a", "/", "b">>,
    <<"/", "a", "/", "a">>,
    <<"/", "a", "/", "b", "/">>,
    <<"/", "a", "/", "b", "/", "b">>,
    <<"/", "a", "/", "a", "/", "b">>,
    <<"/", "a", "/", "/", "b">>,
    <<"/", "b">>,
    <<"/", "b", "/">> }

\* The handler lists handed to Router.Add.
HandleLists == { <<"h1">> }

\* The methods handed to Router.Add, Router.Remove and Router.Route: the
\* nine of net/http, the empty string, a one-byte string, and strings that
\* share a first or second byte with one of the nine or none.
Recognized ==
  { MethodGet, MethodHead, MethodPost, MethodPut, MethodPatch, MethodDelete,
    MethodConnect, MethodOptions, MethodTrace }

Unrecognized == { <<>>, <<"P">>, <<"G", "O", "T">>, <<"X", "O">>, <<"X", "X">> }

\* The methods of the requests served.
ReqMethods ==
  { MethodGet, MethodPost, <<>>, <<"P">>, <<"G", "O", "T">>, <<"X", "X">> }

\* The pattern handed to the Router, and the URL paths of the requests.
RouterPatterns == { <<"/", "a", "/", ":">> }

RouterUrls ==
  { <<"/", "a", "/", "b">>, <<"/", "a", "/", "b", "/">>, <<"/", "a", "/">> }

RouterHandleLists == { <<"h1", "h2">> }

\* The lists handed to SetBefore, SetNotfound and SetAfter.
BeforeLists == { <<>>, <<"b1", "b2">> }

NotfoundLists == { <<>>, <<"n1">> }

AfterLists == { <<>>, <<"a1">> }

\* The hooks and handlers, and what each returns when called: at most
\* MaxFalse of them return false.
Hooks == {"b1", "b2", "n1", "a1", "h1", "h2"}

HookResults ==
  { [h \in Hooks |-> h \notin F] : F \in {G \in SUBSET Hooks : Cardinality(G) <= MaxFalse} }

\* The strings of at most n bytes of the set alphabet.
Strings(alphabet, n) == UNION {[1..k -> alphabet] : k \in 0..n}

\* The arguments of diffString.
DiffStrings == Strings({"/", "a", "b"}, MaxLen)

\* The patterns handed to splitRoute.
SplitPatterns == Strings({"/", ":", "*", ".", "a"}, MaxPat)

\* The patterns registered before the calls that run together, the pattern
\* of the Add among those, the URL paths of the Match calls and the
\* handlers.
BasePatterns == { <<"/", "a", "b">>, <<"/", "a", "/", ":">> }

AddedPatterns == { <<"/", "a">>, <<"/", "a", "/", "b">> }

MatchUrls == { <<"/", "a", "b">>, <<"/", "a", "/", "b">> }

Matchers == {1, 2}

\* The sequences of at most MaxBase different base patterns.
BaseSeqs ==
  {q \in UNION {[1..k -> BasePatterns] : k \in 0..MaxBase} :
     \A i, j \in 1..Len(q) : i # j => q[i] # q[j]}

(* ------------------------------ the state ------------------------------ *)

\* What a call was and what it returned.
Call(op, path, hs, ret, err, ok, panic, hang, steps, param) ==
  [op |-> op, path |-> path, hs |-> hs, ret |-> ret, err |-> err, ok |-> ok,
   panic |-> panic, hang |-> hang, steps |-> steps, Param |-> param]

NoCall == Call("none", <<>>, <<>>, Nil, "", TRUE, FALSE, FALSE, <<>>, <<>>)

\* heap: the routes; last: the call that has just returned (NoCall between
\* calls); pre: the heap that call started from; nops: the number of
\* mutating calls (Add, Router.Add, Remove) so far.
\* History: reg is the set of patterns (as token lists) that were the
\* argument of a successful Add and not of a successful Remove since; pure
\* says that every mutating call so far was a successful Add; node holds,
\* while pure, the pair <<pattern, route>> of what the last Add of each
\* pattern returned; regH is the set of the patterns of reg that Router.Add
\* gave a non-empty handler list; tidy says that every mutating call so far
\* was a successful Add or a Remove of a pattern registered at that time.
TreeFresh ==
  /\ heap = <<NewRoute>>
  /\ pre = <<NewRoute>>
  /\ last = NoCall
  /\ nops = 0
  /\ reg = {}
  /\ pure = TRUE
  /\ node = {}
  /\ regH = {}
  /\ tidy = TRUE

\* What a Router call was and what it returned; for ServeHTTP res is what
\* it did.
RouterCall(op, method, path, hs, ret, ok, err, panic, res) ==
  [op |-> op, method |-> method, path |-> path, hs |-> hs, ret |-> ret,
   ok |-> ok, err |-> err, panic |-> panic, log |-> res.log,
   phases |-> res.phases, first |-> res.first, puts |-> res.puts]

NoServe == ServeRes(<<>>, <<>>, NewContext, FALSE, 0, <<>>)

NoRouterCall == RouterCall("none", <<>>, <<>>, <<>>, Nil, TRUE, "", FALSE, NoServe)

\* new(Router): nine empty trees, no hooks; the pool is empty.
RouterFresh ==
  /\ trees = [i \in RootIndex |-> <<NewRoute>>]
  /\ chains = [before |-> <<>>, notfound |-> <<>>, after |-> <<>>]
  /\ pool = <<>>
  /\ srv = NoRouterCall
  /\ rpre = [i \in RootIndex |-> <<NewRoute>>]
  /\ rops = 0
  /\ rreg = {}

\* A call of a string function: its name and arguments, or its name and
\* result.
StringCall(fn, s1, s2) == [fn |-> fn, s1 |-> s1, s2 |-> s2]

StringVal(fn, out) == [fn |-> fn, out |-> out]

NoVal == StringVal("none", <<>>)

\* No string function is under test.
StringFresh ==
  /\ arg = StringCall("none", <<>>, <<>>)
  /\ val = NoVal

\* No Find has been called.
NoFind == [path |-> <<>>, ret |-> Nil, called |-> FALSE]

\* No unserialized call is under way on the tree t.
Quiet(t) ==
  /\ ct = t
  /\ ct0 = t
  /\ fnd = NoFind

ConcFresh ==
  /\ Quiet(<<NewRoute>>)
  /\ adder = AddCall("idle", <<>>, <<>>)
  /\ ms = [i \in Matchers |-> MatchCallAt("idle", <<>>, "none", FALSE)]

Init == TreeFresh /\ RouterFresh /\ StringFresh /\ ConcFresh

\* A call that panicked or never returns ends the history.
Running == ~last.panic /\ ~last.hang

Idle == last = NoCall

\* A mutating call returns: res is what it left.
Mutated(h, call) ==
  /\ heap' = h
  /\ last' = call
  /\ pre' = heap
  /\ nops' = nops + 1
  /\ UNCHANGED <<rvars, svars, cvars>>

\* The history after rootRoute.Add or Router.Add of the pattern with token
\* list toks returned res.
AddRecorded(op, toks, hs, res) ==
  /\ reg' = IF Failed(res) THEN reg ELSE reg \cup {toks}
  /\ node' = IF pure /\ ~Failed(res)
               THEN {e \in node : e[1] # toks} \cup {<<toks, res.ret>>}
               ELSE {}
  /\ regH' = IF Failed(res) \/ op # "RouterAdd" THEN regH
             ELSE IF hs # <<>> THEN regH \cup {toks}
             ELSE regH \ {toks}

\* rootRoute.Add or Router.Add returns res.
AddReturns(op, path, hs, res) ==
  /\ Mutated(res.h, Call(op, path, hs, res.ret, res.err, ~Failed(res), res.panic,
                         FALSE, res.steps, <<>>))
  /\ pure' = (pure /\ ~Failed(res))
  /\ tidy' = (tidy /\ ~Failed(res))
  /\ AddRecorded(op, splitRoute(path), hs, res)

\* rootRoute.Add(path), called directly as the tests do.
Add(path) ==
  /\ Idle /\ nops < MaxOps
  /\ AddReturns("Add", path, <<>>, rootAdd(heap, path))

\* Router.Add(method, path, hs...) on the tree of one method: rootRoute.Add
\* and then route.Handle = hs.
RouterAdd(path, hs) ==
  /\ Idle /\ nops < MaxOps
  /\ AddReturns("RouterAdd", path, hs, setHandle(rootAdd(heap, path), hs))

\* The history after rootRoute.Remove of the pattern with token list toks
\* returned res.
RemoveRecorded(toks, res) ==
  /\ reg' = IF res.ok THEN reg \ {toks} ELSE reg
  /\ regH' = IF res.ok THEN regH \ {toks} ELSE regH
  /\ tidy' = (tidy /\ toks \in reg)

\* rootRoute.Remove returns res.
RemoveReturns(path, res) ==
  /\ Mutated(res.h, Call("Remove", path, <<>>, Nil, "", res.ok, res.panic,
                         res.hang, <<>>, <<>>))
  /\ pure' = FALSE
  /\ node' = {}
  /\ RemoveRecorded(splitRoute(path), res)

\* rootRoute.Remove(path)
Remove(path) ==
  /\ Idle /\ nops < MaxOps
  /\ RemoveReturns(path, rootRemove(heap, path))

\* A read-only call returns.
Queried(call) ==
  /\ last' = call
  /\ pre' = heap
  /\ UNCHANGED <<heap, nops, reg, pure, node, regH, tidy, rvars, svars, cvars>>

FindCall(path, f) ==
  Call("Find", path, <<>>, f.ret, "", f.ret # Nil, FALSE, f.hang, <<>>, <<>>)

\* rootRoute.Find(path)
Find(path) ==
  /\ Idle
  /\ Queried(FindCall(path, rootFind(heap, path)))

MatchCall(path, m) ==
  Call("Match", path, <<>>, m.ret, "", m.ret # Nil, m.panic, m.hang, <<>>, m.Param)

\* rootRoute.Match(c) with c.Req.URL.Path = path and c.Param empty.
Match(path) ==
  /\ Idle
  /\ Queried(MatchCall(path, rootMatch(heap, path, <<>>)))

\* The call has returned and its caller is done with the result.
Return ==
  /\ ~Idle /\ Running
  /\ last' = NoCall
  /\ pre' = heap
  /\ UNCHANGED <<heap, nops, reg, pure, node, regH, tidy, rvars, svars, cvars>>

Next ==
  \/ \E p \in Patterns : Add(p)
  \/ \E p \in Patterns, hs \in HandleLists : RouterAdd(p, hs)
  \/ \E p \in Patterns : Remove(p)
  \/ \E p \in Patterns : Find(p)
  \/ \E u \in Urls : Match(u)
  \/ Return

Spec == Init /\ [][Next]_vars

(* ------------------------- the Router's operations --------------------- *)

RouterIdle == srv = NoRouterCall

\* Router.SetBefore, Router.SetNotfound, Router.SetAfter
SetBefore(list) ==
  /\ RouterIdle
  /\ chains' = [chains EXCEPT !.before = list]
  /\ UNCHANGED <<tvars, svars, cvars, trees, pool, srv, rpre, rops, rreg>>

SetNotfound(list) ==
  /\ RouterIdle
  /\ chains' = [chains EXCEPT !.notfound = list]
  /\ UNCHANGED <<tvars, svars, cvars, trees, pool, srv, rpre, rops, rreg>>

SetAfter(list) ==
  /\ RouterIdle
  /\ chains' = [chains EXCEPT !.after = list]
  /\ UNCHANGED <<tvars, svars, cvars, trees, pool, srv, rpre, rops, rreg>>

\* A Router call returns call and leaves the trees t.
RouterReturns(t, call) ==
  /\ trees' = t
  /\ srv' = call
  /\ rpre' = trees
  /\ UNCHANGED <<tvars, svars, cvars, chains>>

\* Router.Add returns res where r.root(method) returned r.
RouterAddReturns(method, path, hs, r, res) ==
  /\ RouterReturns(treesAfter(trees, r, res.h),
                   RouterCall("Add", method, path, hs, res.ret, ~Failed(res),
                              res.err, res.panic, NoServe))
  /\ rops' = rops + 1
  /\ rreg' = IF Failed(res) THEN rreg
             ELSE {e \in rreg : e[1] # r.i \/ e[2] # splitRoute(path)}
                    \cup {<<r.i, splitRoute(path), hs>>}
  /\ UNCHANGED pool

\* Router.Add(method, path, hs...)
Router_Add(method, path, hs) ==
  /\ RouterIdle /\ rops < MaxRouterOps
  /\ RouterAddReturns(method, path, hs, root(method),
                      routerAddAt(trees, root(method), path, hs))

\* Router.Remove returns res where r.root(method) returned r.
RouterRemoveReturns(method, path, r, res) ==
  /\ RouterReturns(treesAfter(trees, r, res.h),
                   RouterCall("Remove", method, path, <<>>, Nil, res.ok, "",
                              res.panic, NoServe))
  /\ rops' = rops + 1
  /\ rreg' = IF res.ok
               THEN {e \in rreg : e[1] # r.i \/ e[2] # splitRoute(path)}
               ELSE rreg
  /\ UNCHANGED pool

\* Router.Remove(method, path)
Router_Remove(method, path) ==
  /\ RouterIdle /\ rops < MaxRouterOps
  /\ RouterRemoveReturns(method, path, root(method),
                         routerRemoveAt(trees, root(method), path))

\* Router.Route returns f.
RouterRouteReturns(method, path, f) ==
  /\ RouterReturns(trees, RouterCall("Route", method, path, <<>>, f.ret,
                                     f.ret # Nil, "", f.panic, NoServe))
  /\ UNCHANGED <<pool, rops, rreg>>

\* Router.Route(method, path)
Router_Route(method, path) ==
  /\ RouterIdle
  /\ RouterRouteReturns(method, path, routerRouteAt(trees, root(method), path))

\* Router.ServeHTTP returns, having done res.
ServeReturns(method, path, res) ==
  /\ RouterReturns(trees, RouterCall("ServeHTTP", method, path, <<>>, Nil,
                                     ~res.panic, "", res.panic, res))
  /\ pool' = res.pool
  /\ UNCHANGED <<rops, rreg>>

\* Router.ServeHTTP(res, req) with req.Method = method and req.URL.Path =
\* path, where the hooks and handlers return what rets says.
Router_ServeHTTP(method, path, rets) ==
  /\ RouterIdle
  /\ ServeReturns(method, path, ServeHTTP(trees, chains, pool, method, path, rets))

\* The call has returned and its caller is done with the result; a panic in
\* ServeHTTP ends the request, one in Add, Remove or Route the program.
Router_Return ==
  /\ ~RouterIdle
  /\ srv.op = "ServeHTTP" \/ ~srv.panic
  /\ srv' = NoRouterCall
  /\ rpre' = trees
  /\ UNCHANGED <<tvars, svars, cvars, trees, chains, pool, rops, rreg>>

RouterNext ==
  \/ \E l \in BeforeLists : SetBefore(l)
  \/ \E l \in NotfoundLists : SetNotfound(l)
  \/ \E l \in AfterLists : SetAfter(l)
  \/ \E m \in Recognized \cup Unrecognized, p \in RouterPatterns,
        hs \in RouterHandleLists : Router_Add(m, p, hs)
  \/ \E m \in Recognized \cup Unrecognized, p \in RouterPatterns :
        Router_Remove(m, p)
  \/ \E m \in Recognized \cup Unrecognized, p \in RouterPatterns :
        Router_Route(m, p)
  \/ \E m \in ReqMethods, u \in RouterUrls, rets \in HookResults :
        Router_ServeHTTP(m, u, rets)
  \/ Router_Return

RouterSpec == Init /\ [][RouterNext]_vars

(* ------------------------- the string functions ----------------------- *)

\* A call of diffString or of splitRoute with arguments from the inputs.
StringInit ==
  /\ TreeFresh
  /\ RouterFresh
  /\ ConcFresh
  /\ arg \in {StringCall("diffString", s1, s2) : s1, s2 \in DiffStrings}
             \cup {StringCall("splitRoute", p, <<>>) : p \in SplitPatterns}
  /\ val = NoVal

\* s1, s2 := diffString(arg.s1, arg.s2)
DiffString ==
  /\ arg.fn = "diffString" /\ val = NoVal
  /\ val' = StringVal("diffString", diffString(arg.s1, arg.s2))
  /\ UNCHANGED <<tvars, rvars, cvars, arg>>

\* routePath, err := splitRoute(arg.s1)
SplitRoute ==
  /\ arg.fn = "splitRoute" /\ val = NoVal
  /\ val' = StringVal("splitRoute", splitRoute(arg.s1))
  /\ UNCHANGED <<tvars, rvars, cvars, arg>>

StringNext == DiffString \/ SplitRoute

StringSpec == StringInit /\ [][StringNext]_vars

(* --------------------- calls without serialization -------------------- *)

\* A tree built by Router.Add calls, a Router.Add to come and two requests
\* to match.
ConcInit ==
  /\ TreeFresh
  /\ RouterFresh
  /\ StringFresh
  /\ \E q \in BaseSeqs : Quiet(Built(<<NewRoute>>, q, <<"h1">>))
  /\ adder \in {AddCall("idle", p, <<"h2">>) : p \in AddedPatterns}
  /\ ms \in [Matchers -> {MatchCallAt("idle", u, "none", FALSE) : u \in MatchUrls}]

\* Router.Add is called: root.Add splits the pattern.
AddBegin ==
  /\ adder.pc = "idle"
  /\ adder' = [adder EXCEPT !.pc = "init", !.toks = splitRoute(adder.path)]
  /\ UNCHANGED <<tvars, rvars, svars, ct, ct0, ms, fnd>>

\* The Add runs its next statement to res.
AddStepped(res) ==
  /\ ct' = res.h
  /\ adder' = res.a

AddStep ==
  /\ adder.pc \notin {"idle", "done"}
  /\ AddStepped(addStep(ct, adder))
  /\ UNCHANGED <<tvars, rvars, svars, ct0, ms, fnd>>

\* rootRoute.Match is called with the context of request i.
MatchBegin(i) ==
  /\ ms[i].pc = "idle"
  /\ ms' = [ms EXCEPT ![i] =
               MatchCallAt("loop", ms[i].url, Phase(adder),
                           \E j \in Matchers : ms[j].pc \notin {"idle", "done"})]
  /\ UNCHANGED <<tvars, rvars, svars, ct, ct0, adder, fnd>>

\* Match call i runs its next statement.
MatchStep(i) ==
  /\ ms[i].pc \notin {"idle", "done"}
  /\ ms' = capture([ms EXCEPT ![i] = matchStep(ct, ms[i], Phase(adder))],
                   i, captured(ct, ms[i]))
  /\ UNCHANGED <<tvars, rvars, svars, ct, ct0, adder, fnd>>

\* rootRoute.Find(p), called before the calls that run together.
ConcFind(p) ==
  /\ ~fnd.called
  /\ Phase(adder) = "before"
  /\ \A i \in Matchers : ms[i].pc = "idle"
  /\ fnd' = [path |-> p, ret |-> rootFind(ct, p).ret, called |-> TRUE]
  /\ UNCHANGED <<tvars, rvars, svars, ct, ct0, adder, ms>>

ConcNext ==
  \/ AddBegin
  \/ AddStep
  \/ \E i \in Matchers : MatchBegin(i)
  \/ \E i \in Matchers : MatchStep(i)
  \/ \E p \in BasePatterns : ConcFind(p)

ConcSpec == ConcInit /\ [][ConcNext]_vars

(* ------------------------- vocabulary of the claims -------------------- *)

Kids(h, n) ==
  ({h[n].static[b] : b \in Byte} \cup {h[n].param}) \ {Nil}

RECURSIVE ReachFrom(_, _, _)
ReachFrom(h, frontier, seen) ==
  IF frontier = {} THEN seen
  ELSE LET next == (UNION {Kids(h, n) : n \in frontier}) \ seen
       IN ReachFrom(h, next, seen \cup next)

\* The routes reachable from the root through static and param slots.
Reach(h) == ReachFrom(h, {Root}, {Root})

IsAdd(c) == c.op = "Add" \/ c.op = "RouterAdd"

IsParamTok(t) == t = Colon \/ t = Star

\* Strings put in the place of a ':' segment and of a trailing '*'.
ColonValues == { <<"a">>, <<"b">>, <<"b", "a">> }

StarValues == { <<"a">>, <<"b", "/", "a">> }

RECURSIVE Instances(_)
\* The URL paths obtained from a token list by replacing each ':' by a
\* ColonValue and each '*' by a StarValue, with the replacements in order.
Instances(toks) ==
  IF toks = <<>> THEN {[path |-> <<>>, caps |-> <<>>]}
  ELSE LET t == Head(toks)
           sep == IF Len(toks) > 1 THEN Slash ELSE <<>>
           rest == Instances(Tail(toks))
       IN IF IsParamTok(t)
            THEN {[path |-> v \o sep \o r.path, caps |-> <<v>> \o r.caps] :
                    v \in (IF t = Colon THEN ColonValues ELSE StarValues), r \in rest}
            ELSE {[path |-> t \o r.path, caps |-> r.caps] : r \in rest}

(* -------------------------------- claims ------------------------------- *)

\* C1: kind exclusion.  After any sequence of Add and Remove calls no route
\* reachable from the root has both a static child and a param child.
C1_KindExclusion ==
  \A n \in Reach(heap) : ~(HasStatic(heap, n) /\ heap[n].param # Nil)

\* Match result m is the route Find result f, with captures caps.
MatchedAs(m, f, caps) ==
  ~m.panic /\ ~m.hang /\ m.ret # Nil /\ m.ret = f.ret /\ m.Param = caps

\* C2: match correctness.  On a tree built by successful Adds only, every
\* URL path that is an instance of a registered pattern Q is matched to the
\* route Find(Q) returns, with exactly the replacement strings as captures.
C2_MatchCorrect ==
  (IsAdd(last) /\ pure) =>
    \A Q \in reg : \A i \in Instances(Q) :
      MatchedAs(rootMatch(heap, i.path, <<>>), findTokens(heap, Q), i.caps)

\* C3: matching never errors.  Every Match call returns (a route or nil); it
\* never panics.
C3_MatchNeverPanics ==
  last.op = "Match" => ~last.panic

\* C4: static onto parameter is rejected.  An Add creates no static child
\* under a route that has, and keeps, a param child.
C4_NoStaticUnderParam ==
  IsAdd(last) =>
    \A n \in 1..Len(pre) :
      (pre[n].param # Nil /\ heap[n].param = pre[n].param) =>
        \A b \in Byte : heap[n].static[b] # Nil => pre[n].static[b] # Nil

\* The Add that has just returned took a ':' or '*' token at a route that
\* had a static child and no param child.
ParamOntoStatic(i) ==
  /\ i \in 1..Len(last.steps)
  /\ IsParamTok(last.steps[i].tok)
  /\ last.steps[i].hasStatic
  /\ last.steps[i].param = <<>>

\* C5: parameter onto static is rejected.  An Add whose next token is ':' or
\* '*' at a route with a static child and no param child returns an error.
C5_ParamOntoStaticRejected ==
  IsAdd(last) =>
    \A i \in 1..Len(last.steps) :
      ParamOntoStatic(i) => (~last.ok /\ last.err # "" /\ i = Len(last.steps))

C5_Witness ==
  IsAdd(last) /\ \E i \in 1..Len(last.steps) : ParamOntoStatic(i) /\ ~last.ok

\* The token list toks goes on after a registered pattern that ends in '*'.
PastCatchAll(toks) ==
  \E k \in 1..(Len(toks) - 1) : toks[k] = Star /\ Upto(toks, k) \in reg

\* C6: catch-all is terminal.  Once a pattern ending in '*' is registered,
\* every Add of a pattern that goes on after that '*' returns an error.
C6_CatchAllTerminal ==
  (IsAdd(last) /\ PastCatchAll(splitRoute(last.path))) => (~last.ok /\ last.err # "")

C6_Witness ==
  IsAdd(last) /\ PastCatchAll(splitRoute(last.path)) /\ ~last.ok

\* The Add that has just returned took a ':' or '*' token at a route (not a
\* '*' route) whose param child was of the other kind / of the same kind.
OtherKind(i) ==
  /\ IsParamTok(last.steps[i].tok)
  /\ last.steps[i].param # <<>>
  /\ last.steps[i].param # last.steps[i].tok

SameKind(i) ==
  /\ IsParamTok(last.steps[i].tok)
  /\ last.steps[i].atName # Star
  /\ last.steps[i].param = last.steps[i].tok

\* C7: a conflicting parameter kind is rejected, the same kind is reused.
\* An Add that needs '*' where a ':' child is (or ':' where '*' is) returns
\* an error; one that needs the kind that is there goes on at that child
\* and allocates nothing for the token.
C7_ParamKind ==
  IsAdd(last) =>
    \A i \in 1..Len(last.steps) :
      /\ OtherKind(i) => (~last.ok /\ last.err # "" /\ i = Len(last.steps))
      /\ SameKind(i) =>
           IF i < Len(last.steps)
             THEN last.steps[i + 1].at = last.steps[i].paramId
             ELSE last.ok /\ last.ret = last.steps[i].paramId

C7_Witness ==
  /\ IsAdd(last)
  /\ \E i \in 1..Len(last.steps) : OtherKind(i) /\ ~last.ok

\* C8: a failed Add leaves the tree in its pre-call state.
C8_FailedAddNoChange ==
  (IsAdd(last) /\ ~last.ok) => heap = pre

SameAgain(again) ==
  ~Failed(again) /\ again.ret = last.ret /\ again.h = heap

C11_AddedNodeStays ==
  pure => \A e \in node : findTokens(heap, e[1]) = Found(e[2])

\* Find result f (now) is a route with the handler list that Find result g
\* (before the call) had.
SameHandlers(f, g) ==
  g.ret # Nil => (f.ret # Nil /\ heap[f.ret].Handle = pre[g.ret].Handle)

\* C12: a successful Add(Q) does not change what is registered for other
\* patterns.  Every other registered pattern is found after the Add at a
\* route with the handler list it had before.
C12_AddKeepsOthers ==
  (IsAdd(last) /\ last.ok) =>
    \A P \in reg \ {splitRoute(last.path)} :
      SameHandlers(findTokens(heap, P), findTokens(pre, P))

\* Find results f (now) and g (before) are different routes, g's with
\* handlers.
MovedWithHandlers(f, g) ==
  g.ret # Nil /\ f.ret # g.ret /\ pre[g.ret].Handle # <<>>

C12_Witness ==
  /\ IsAdd(last) /\ last.ok
  /\ \E P \in reg \ {splitRoute(last.path)} :
       MovedWithHandlers(findTokens(heap, P), findTokens(pre, P))

\* The route f found before the call and every route below it then.
Below(f) == IF f.ret = Nil THEN {} ELSE ReachFrom(pre, {f.ret}, {f.ret})

\* C13: Remove/Find round trip.  After Remove(P) returned true, Find(P)
\* returns nil and Match returns, for no URL path, the route P had or a
\* route that was below it.
C13_RemoveFind ==
  (last.op = "Remove" /\ last.ok) =>
    /\ rootFind(heap, last.path).ret = Nil
    /\ \A u \in Urls :
         rootMatch(heap, u, <<>>).ret \notin Below(rootFind(pre, last.path))

\* Find result f is a route with a non-empty handler list.
HasHandlers(f) == f.ret # Nil /\ heap[f.ret].Handle # <<>>

\* C14: after any sequence of Adds and Removes, every pattern that
\* Router.Add gave a non-empty handler list and that was not the argument
\* of a successful Remove since is found by Find at a route whose handler
\* list is non-empty.
C14_AddedStayFound ==
  Running => \A P \in regH : HasHandlers(findTokens(heap, P))

RECURSIVE Canon(_)
\* The canonical form of a pattern with token list toks: the path that
\* Route.add gives its terminal route.
Canon(toks) ==
  IF toks = <<>> THEN <<>>
  ELSE Head(toks) \o (IF IsParamTok(Head(toks)) /\ Len(toks) > 1 THEN Slash ELSE <<>>)
                 \o Canon(Tail(toks))

\* String q begins with string p.
Begins(q, p) == Len(p) <= Len(q) /\ Upto(q, Len(p)) = p

\* Every URL path that Match gave the route g before the call is given the
\* route f now.
StillMatched(f, g) ==
  \A u \in Urls :
    (g.ret # Nil /\ rootMatch(pre, u, <<>>).ret = g.ret) =>
      (f.ret # Nil /\ rootMatch(heap, u, <<>>).ret = f.ret)

\* C15: Remove is local.  After a successful Remove(P), every registered
\* pattern Q whose canonical form does not begin with P's is found at a
\* route with the handlers it had, and every URL path that matched Q
\* before still matches it.
C15_RemoveLocal ==
  (last.op = "Remove" /\ last.ok) =>
    \A Q \in reg :
      ~Begins(Canon(Q), Canon(splitRoute(last.path))) =>
        /\ SameHandlers(findTokens(heap, Q), findTokens(pre, Q))
        /\ StillMatched(findTokens(heap, Q), findTokens(pre, Q))

\* C16: Remove of a pattern that is not registered when it is called (never
\* added, or removed since), also one that is only a prefix of registered
\* patterns, returns false and leaves the tree unchanged.
C16_RemoveUnregistered ==
  [][(last'.op = "Remove" /\ splitRoute(last'.path) \notin reg) =>
       (~last'.ok /\ ~last'.panic /\ heap' = heap)]_vars

\* C17: Find is an exact lookup.  Find(P) returns a route only if P is
\* registered: it was the argument of a successful Add and not of a
\* successful Remove since.
C17_FindExact ==
  (last.op = "Find" /\ last.ret # Nil) => splitRoute(last.path) \in reg

\* The static children that route p had before the call, r left out.
OtherStatic(p, r) == {pre[p].static[b] : b \in Byte} \ {Nil, r}

\* Before the call r was a child of the static route p, and p without r had
\* no handlers, no param child and exactly one static child.
Compacting(r, p) ==
  /\ p # Nil /\ r \in Kids(pre, p)
  /\ pre[p].name # Colon /\ pre[p].name # Star
  /\ pre[p].Handle = <<>>
  /\ pre[p].param \in {Nil, r}
  /\ Cardinality(OtherStatic(p, r)) = 1

\* Route p is now what p joined with its child S was before the call.
Merged(p, S) ==
  /\ heap[p].name = pre[p].name \o pre[S].name
  /\ heap[p].Handle = pre[S].Handle
  /\ heap[p].static = pre[S].static
  /\ heap[p].param = pre[S].param
  /\ \A k \in Kids(pre, S) : heap[k].parent = p

\* Every registered pattern whose route was S or below S is found with its
\* handlers and matched as before.
KeptBelow(S) ==
  \A Q \in reg :
    findTokens(pre, Q).ret \in ReachFrom(pre, {S}, {S}) =>
      /\ findTokens(heap, Q).ret # Nil
      /\ SameHandlers(findTokens(heap, Q), findTokens(pre, Q))
      /\ StillMatched(findTokens(heap, Q), findTokens(pre, Q))

\* Remove of the route r that makes its parent compact completes and
\* merges the parent with the child it has left.
CompactedAt(r) ==
  (r # Nil /\ r # Root /\ Compacting(r, pre[r].parent)) =>
    /\ last.ok /\ ~last.panic /\ ~last.hang
    /\ \A S \in OtherStatic(pre[r].parent, r) :
         Merged(pre[r].parent, S) /\ KeptBelow(S)

\* C18: compaction on remove.  When Remove detaches a route whose parent is
\* a static route with no handlers, no param child and exactly one static
\* child S left, Remove completes and the parent is merged with S: its
\* name is parent.name + S.name, it has S's handlers, static children and
\* param child, the moved children have it as parent, and the patterns
\* that ran through S are still found and matched.
C18_RemoveCompacts ==
  last.op = "Remove" => CompactedAt(rootFind(pre, last.path).ret)

\* The tree is what a fresh tree is: the root has no name, no children and
\* no handlers, Find finds no pattern and Match no route with handlers.
EmptyTree ==
  /\ heap[Root].name = <<>> /\ heap[Root].Handle = <<>>
  /\ Kids(heap, Root) = {}
  /\ \A P \in Patterns : rootFind(heap, P).ret = Nil
  /\ \A u \in Urls : ~HasHandlers(rootMatch(heap, u, <<>>))

\* C19: on a tree built by successful Adds, every Remove of a registered
\* pattern completes, and once every registered pattern has been removed,
\* in any order, the tree is a fresh empty tree.
C19_RemoveAllEmpties ==
  (tidy /\ last.op = "Remove") =>
    /\ ~last.panic /\ ~last.hang
    /\ reg = {} => EmptyTree

\* The strings that the Match call c appended to c.Param at ':' routes: all
\* of them but the one appended last at a '*' route, if it returned one.
ColonCaptures(c) ==
  IF c.ret # Nil /\ heap[c.ret].name = Star
    THEN Upto(c.Param, Len(c.Param) - 1)
    ELSE c.Param

\* s has no '/' byte.
NoSlash(s) == \A k \in 1..Len(s) : s[k] # "/"

\* C20: a ':' parameter captures one segment.  No string that Match
\* appends to c.Param for a ':' route has a '/' byte.
C20_ColonOneSegment ==
  last.op = "Match" =>
    \A i \in 1..Len(ColonCaptures(last)) : NoSlash(ColonCaptures(last)[i])

\* C21: catch-all with empty tail.  On a tree built by successful Adds, a
\* URL path that ends exactly where the trailing '*' of a registered
\* pattern Q begins is matched to the route Find(Q) returns, the '*' route,
\* with the strings in the place of the ':' segments as captures.
C21_CatchAllEmptyTail ==
  (IsAdd(last) /\ pure) =>
    \A Q \in reg :
      Q[Len(Q)] = Star =>
        \A i \in Instances(Upto(Q, Len(Q) - 1)) :
          MatchedAs(rootMatch(heap, i.path, <<>>), findTokens(heap, Q), i.caps)

\* C30: Router.Add(method, path, hs...) on success returns the terminal
\* route of path with its handler list equal to hs, and the handler list of
\* every other route is what it was before the call.
C30_RouterAddSetsHandle ==
  (last.op = "RouterAdd" /\ last.ok) =>
    /\ last.ret # Nil
    /\ rootFind(heap, last.path) = Found(last.ret)
    /\ heap[last.ret].Handle = last.hs
    /\ \A n \in 1..Len(pre) : n # last.ret => heap[n].Handle = pre[n].Handle

\* C31: diffString(s1, s2) strips the longest common prefix: it returns
\* (d1, d2) such that s1 = p + d1 and s2 = p + d2 for one string p, and
\* either d1 is empty, or d2 is empty, or d1 and d2 begin with different
\* bytes; if either input is empty both are returned unchanged.
C31_DiffString ==
  val.fn = "diffString" =>
    /\ Len(val.out[1]) <= Len(arg.s1)
    /\ Len(arg.s1) - Len(val.out[1]) = Len(arg.s2) - Len(val.out[2])
    /\ Upto(arg.s1, Len(arg.s1) - Len(val.out[1]))
         = Upto(arg.s2, Len(arg.s2) - Len(val.out[2]))
    /\ arg.s1 = Upto(arg.s1, Len(arg.s1) - Len(val.out[1])) \o val.out[1]
    /\ arg.s2 = Upto(arg.s2, Len(arg.s2) - Len(val.out[2])) \o val.out[2]
    /\ \/ val.out[1] = <<>>
       \/ val.out[2] = <<>>
       \/ val.out[1][1] # val.out[2][1]
    /\ (arg.s1 = <<>> \/ arg.s2 = <<>>) => val.out = <<arg.s1, arg.s2>>

\* Two strings that share a prefix and then differ, each with a rest.
C31_Witness ==
  /\ val.fn = "diffString"
  /\ val.out[1] # <<>> /\ val.out[2] # <<>>
  /\ Len(val.out[1]) < Len(arg.s1)

\* A token that is neither ":" nor "*".
IsStaticTok(t) == t # Colon /\ t # Star

\* C32: splitRoute boundary rules, first part.  For every pattern the token
\* list is non-empty and its first token is a static run beginning with
\* '/', and every static run that is immediately followed by a ':' or '*'
\* token ends with '/'.
C32_SplitFirstStatic ==
  val.fn = "splitRoute" =>
    /\ val.out # <<>>
    /\ IsStaticTok(val.out[1])
    /\ val.out[1] # <<>> /\ val.out[1][1] = "/"
    /\ \A i \in 1..(Len(val.out) - 1) :
         (IsStaticTok(val.out[i]) /\ ~IsStaticTok(val.out[i + 1])) =>
           (val.out[i] # <<>> /\ val.out[i][Len(val.out[i])] = "/")

\* A pattern whose first segment is ':' or '*', and a static run of literal
\* segments before a ':' or '*'.
C32_Witness ==
  /\ val.fn = "splitRoute"
  /\ arg.s1 # <<>> /\ arg.s1[1] \in {":", "*"}
  /\ Len(val.out) >= 2 /\ val.out[1] = Slash

\* C33: splitRoute boundary rules, second part.  Every static run token,
\* including one that follows a ':' or '*' token, begins with '/'.
C33_StaticBeginsWithSlash ==
  val.fn = "splitRoute" =>
    \A i \in 1..Len(val.out) :
      IsStaticTok(val.out[i]) => (val.out[i] # <<>> /\ val.out[i][1] = "/")

\* The segments of a pattern: the parts between the '/' of the cleaned
\* pattern without its leading '/'.
Segments(c) ==
  IF c = <<>> \/ c = Slash THEN <<>>
  ELSE SplitSlash(IF Head(c) = "/" THEN Tail(c) ELSE c)

IsMarker(seg) == seg # <<>> /\ seg[1] \in {":", "*"}

\* C34: splitRoute token kinds.  Each segment beginning with ':' yields
\* exactly the token ":" and each segment beginning with '*' exactly "*",
\* in the order of the segments; no two static tokens are adjacent; a
\* leading '/' is optional.
C34_SplitTokenKinds ==
  val.fn = "splitRoute" =>
    /\ SelectSeq(val.out, LAMBDA t : ~IsStaticTok(t))
         = [j \in 1..Len(SelectSeq(Segments(Clean(arg.s1)), IsMarker)) |->
              <<SelectSeq(Segments(Clean(arg.s1)), IsMarker)[j][1]>>]
    /\ \A i \in 1..(Len(val.out) - 1) :
         ~(IsStaticTok(val.out[i]) /\ IsStaticTok(val.out[i + 1]))
    /\ (arg.s1 = <<>> \/ arg.s1[1] # "/") =>
         splitRoute(Slash \o arg.s1) = val.out

\* The tree index of a method (-1 if Router.root returns nil or panics).
TreeOf(method) == root(method).i

\* The handler calls of the ServeHTTP call c, and its calls of the given
\* chain.
Calls(c, name) == SelectSeq(c.log, LAMBDA e : e.chain = name)

IsServe(c) == c.op = "ServeHTTP"

\* C22: the nine method names map to nine pairwise distinct trees; a
\* pattern is found or matched through a method only if it was registered
\* on that method's tree, and Add and Remove under one method leave the
\* other eight trees as they were.
C22_MethodsIsolated ==
  /\ \A m1, m2 \in Recognized :
       /\ ~root(m1).panic /\ TreeOf(m1) \in RootIndex
       /\ m1 # m2 => TreeOf(m1) # TreeOf(m2)
  /\ srv.method \in Recognized =>
       /\ srv.op \in {"Add", "Remove"} =>
            \A i \in RootIndex \ {TreeOf(srv.method)} : trees[i] = rpre[i]
       /\ (srv.op = "Route" /\ srv.ret # Nil) =>
            \E e \in rreg : e[1] = TreeOf(srv.method) /\ e[2] = splitRoute(srv.path)
       /\ (IsServe(srv) /\ Calls(srv, "handle") # <<>>) =>
            \E e \in rreg : e[1] = TreeOf(srv.method)

\* A pattern is registered under one method only, and Route for that
\* pattern through another of the nine methods returns nil.
C22_Witness ==
  /\ srv.op = "Route" /\ srv.method \in Recognized /\ srv.ret = Nil
  /\ \E e \in rreg : e[1] # TreeOf(srv.method) /\ e[2] = splitRoute(srv.path)

\* C23: unrecognized methods are rejected.  For a method that is not one of
\* the nine, Router.Add returns the invalid-method error, Router.Route nil
\* and Router.Remove false, no tree is modified, and ServeHTTP, unless a
\* before hook returns false, runs the not-found chain.
C23_UnrecognizedRejected ==
  (srv.op # "none" /\ srv.method \notin Recognized) =>
    /\ ~srv.panic
    /\ trees = rpre
    /\ srv.op = "Add" => (~srv.ok /\ srv.err = "invalid http method")
    /\ srv.op = "Route" => srv.ret = Nil
    /\ srv.op = "Remove" => ~srv.ok
    /\ (IsServe(srv) /\ \A j \in 1..Len(srv.log) : srv.log[j].ret) =>
         srv.phases = <<"before", "notfound", "after">>

\* The place of a chain in "before -> (handlers | not-found) -> after".
PhaseRank(name) ==
  IF name = "before" THEN 1 ELSE IF name = "after" THEN 3 ELSE 2

\* Some before hook of the call c returned false.
BeforeAborted(c) ==
  \E j \in 1..Len(c.log) : c.log[j].chain = "before" /\ ~c.log[j].ret

\* The after chain ran: with hooks set, the first of them was called.
AfterRan(c) ==
  /\ c.phases # <<>> /\ c.phases[Len(c.phases)] = "after"
  /\ chains.after # <<>> =>
       \E j \in 1..Len(c.log) :
         /\ c.log[j].chain = "after" /\ c.log[j].h = chains.after[1]
         /\ \A k \in 1..(j - 1) : c.log[k].chain # "after"

\* C24: phase ordering in Router.ServeHTTP.  Within one request no route
\* handler or not-found handler runs before the before chain has ended, no
\* after hook runs before the handler or not-found phase has ended, and the
\* after chain is started on every request.
C24_PhaseOrdering ==
  IsServe(srv) =>
    /\ \A j, k \in 1..Len(srv.log) :
         j < k => PhaseRank(srv.log[j].chain) <= PhaseRank(srv.log[k].chain)
    /\ AfterRan(srv)

\* C25: before-phase abort.  If a before hook returns false, no later
\* before hook, no route handler and no not-found handler is invoked for
\* that request; the after chain runs next.
C25_BeforeAbort ==
  IsServe(srv) =>
    \A j \in 1..Len(srv.log) :
      (srv.log[j].chain = "before" /\ ~srv.log[j].ret) =>
        /\ \A k \in (j + 1)..Len(srv.log) : srv.log[k].chain = "after"
        /\ srv.phases = <<"before", "after">>
        /\ chains.after # <<>> =>
             (Len(srv.log) > j /\ srv.log[j + 1].h = chains.after[1])

\* The second before hook returns false on a request whose path a route
\* with handlers matches, with a not-found and an after hook set.
C25_Witness ==
  /\ IsServe(srv)
  /\ Len(srv.log) >= 2 /\ srv.log[2].chain = "before" /\ ~srv.log[2].ret
  /\ chains.notfound # <<>> /\ chains.after # <<>>
  /\ \E e \in rreg : e[1] = TreeOf(srv.method)
  /\ rootMatch(trees[TreeOf(srv.method)], srv.path, <<>>).ret # Nil

\* The calls hc are calls of the handlers H in order, one per position, up
\* to the end of H or to the first that returned false.
RunInOrder(hc, H) ==
  /\ Len(hc) <= Len(H)
  /\ \A j \in 1..Len(hc) :
       /\ hc[j].h = H[j] /\ hc[j].i = j
       /\ j < Len(hc) => hc[j].ret
  /\ Len(hc) < Len(H) => ~hc[Len(hc)].ret

\* C26: within the matched chain, handlers run in the order they were
\* passed to Add, each at most once per request; the first handler that
\* returns false prevents all later handlers of that chain from running,
\* and the after chain still runs.
C26_HandlersInOrder ==
  (IsServe(srv) /\ Calls(srv, "handle") # <<>>) =>
    /\ \E e \in rreg :
         e[1] = TreeOf(srv.method) /\ RunInOrder(Calls(srv, "handle"), e[3])
    /\ AfterRan(srv)

\* The first of two handlers returned false, with an after hook set.
C26_Witness ==
  /\ IsServe(srv)
  /\ Len(Calls(srv, "handle")) = 1 /\ ~Calls(srv, "handle")[1].ret
  /\ chains.after # <<>>

\* Match on the tree of the request's method returns a node with a
\* non-empty handler list.
MatchHasHandlers(h, m) == m.ret # Nil /\ Len(h[m.ret].Handle) > 0

ChainDue(c) ==
  IF /\ c.method \in Recognized
     /\ MatchHasHandlers(trees[TreeOf(c.method)],
                         rootMatch(trees[TreeOf(c.method)], c.path, <<>>))
    THEN "handle"
    ELSE "notfound"

\* C27: when every before hook returns true, exactly one of the two chains
\* is run in a request: the matched node's handlers if Match returns a node
\* with a non-empty handler list, otherwise (Match returns nil, the node has
\* no handlers, or the method has no tree) the not-found chain.
C27_ExactlyOneChain ==
  (IsServe(srv) /\ ~BeforeAborted(srv)) =>
    srv.phases = <<"before", ChainDue(srv), "after">>

\* What Match appends to an empty Param for the request of the call c.
CapturesOf(c) ==
  IF root(c.method).panic \/ TreeOf(c.method) = -1 THEN <<>>
  ELSE rootMatch(trees[TreeOf(c.method)], c.path, <<>>).Param

Diverging(A, B, d) ==
  /\ Len(A) = 1 /\ Len(B) = 1
  /\ IsStaticTok(A[1]) /\ IsStaticTok(B[1])
  /\ d[1] # <<>> /\ d[2] # <<>>

\* The root is labelled with the common prefix of a and b, has no handlers
\* and exactly the two static children labelled d[1] and d[2], which are
\* what Find returns for the two patterns.
SplitInTwo(h, A, B, d) ==
  /\ h[Root].name \o d[1] = A[1] /\ h[Root].name \o d[2] = B[1]
  /\ h[Root].Handle = <<>>
  /\ h[Root].param = Nil
  /\ StaticSlots(h, Root) \in {<<d[1][1], d[2][1]>>, <<d[2][1], d[1][1]>>}
  /\ h[h[Root].static[d[1][1]]].name = d[1]
  /\ h[h[Root].static[d[2][1]]].name = d[2]
  /\ findTokens(h, A) = Found(h[Root].static[d[1][1]])
  /\ findTokens(h, B) = Found(h[Root].static[d[2][1]])

\* C35: split on divergence.  Inserting into an empty tree two static
\* patterns A and B whose longest common prefix p is shorter than both
\* yields a root labelled p with no handlers and exactly two static
\* children, labelled with the remainders of A and B and filed under their
\* first bytes; Find(A) and Find(B) return those two children.
C35_SplitOnDivergence ==
  (IsAdd(last) /\ pure /\ nops = 2) =>
    \A A, B \in reg :
      (reg = {A, B} /\ Diverging(A, B, diffString(A[1], B[1]))) =>
        SplitInTwo(heap, A, B, diffString(A[1], B[1]))

C35_Witness ==
  /\ IsAdd(last) /\ pure /\ nops = 2
  /\ \E A, B \in reg :
       reg = {A, B} /\ Diverging(A, B, diffString(A[1], B[1]))

\* C36: back-reference consistency.  After any sequence of Adds and
\* Removes, for every node c held in a slot static[b] or param of a node n
\* reachable from the root, c.parent is n.
C36_ParentOfChild ==
  \A n \in Reach(heap) : \A c \in Kids(heap, n) : heap[c].parent = n

\* C37: slot keying.  After any sequence of Adds and Removes, every
\* populated slot static[b] of every reachable node holds a node whose
\* label is non-empty and begins with byte b.
C37_SlotKeying ==
  \A n \in Reach(heap) : \A b \in Byte :
    heap[n].static[b] # Nil =>
      /\ heap[heap[n].static[b]].name # <<>>
      /\ heap[heap[n].static[b]].name[1] = b

\* A Remove has changed a tree and left a route with a static child.
C37_Witness ==
  /\ last.op = "Remove" /\ last.ok /\ heap # pre
  /\ \E n \in Reach(heap) : HasStatic(heap, n)

\* C38: catch-all nodes are leaves.  After any sequence of Adds and
\* Removes, every reachable node labelled "*" has no static children and no
\* parameter child.
C38_CatchAllLeaf ==
  \A n \in Reach(heap) : heap[n].name = Star => Kids(heap, n) = {}

\* An Add was refused at a '*' route that is still in the tree.
C38_Witness ==
  /\ IsAdd(last) /\ last.err = "is a all match route"
  /\ \E n \in Reach(heap) : heap[n].name = Star

\* The Match call m ran while no Add ran.
Serial(m) == m.from = m.to /\ m.from # "during"

\* The Match call m returned what the Match r returned.
SameAs(m, r) ==
  m.pc = "done" /\ m.ret = r.ret /\ m.Param = r.Param /\ m.panic = r.panic

\* The tree a Match call met that began when the Add was not under way.
TreeAt(m) == IF m.from = "before" THEN ct0 ELSE ct

\* C39: Find and Match are read-only on the tree: neither changes any
\* node's label, children, parent or handlers; Match writes only to the
\* Param list of the context it is given, so two Matches on an unchanging
\* tree, in any interleaving and each with its own context, return the same
\* results as if run one after the other.
C39_ReadOnly ==
  /\ Phase(adder) = "before" => ct = ct0
  /\ \A i \in Matchers :
       (ms[i].pc = "done" /\ Serial(ms[i])) =>
         SameAs(ms[i], rootMatch(TreeAt(ms[i]), ms[i].url, <<>>))

\* Two Match calls that ran together have both returned a route with a
\* capture, and a Find came before them.
C39_Witness ==
  /\ Phase(adder) = "before" /\ fnd.called
  /\ \A i \in Matchers : ms[i].pc = "done" /\ ms[i].Param # <<>>
  /\ \E i \in Matchers : ms[i].amid

\* Match on the tree h returns a route with handlers for the path url.
Served(h, r) == ~r.panic /\ ~r.hang /\ r.ret # Nil /\ h[r.ret].Handle # <<>>

ServedOn(h, url) == Served(h, rootMatch(h, url, <<>>))

\* The tree the Add leaves when nothing runs beside it.
TreeAfterAdd == Built(ct0, <<adder.path>>, adder.hs)

\* The Match call m returned nil or a route without handlers for a path
\* that is matched to a route with handlers before the Add and after it.
Missed(m) ==
  /\ m.pc = "done" /\ ~m.panic
  /\ m.ret = Nil \/ m.retH = <<>>
  /\ ServedOn(ct0, m.url)
  /\ ServedOn(TreeAfterAdd, m.url)

\* C40: Add is not atomic with respect to Match.  A Match returns nil or a
\* node without handlers for a path whose pattern was registered before
\* the Add began and is never removed only if it ran while the Add ran;
\* the witness is the interleaving with an Add that splits a node in which
\* it does.
C40_AddNotAtomic ==
  \A i \in Matchers : Missed(ms[i]) => ~Serial(ms[i])

C40_Witness ==
  /\ adder.pc = "done" /\ adder.split /\ adder.err = "" /\ ~adder.panic
  /\ \E i \in Matchers : Missed(ms[i]) /\ ~Serial(ms[i])

\* The statements of the Add, run to the end, leave the tree Router.Add
\* leaves.
AddStepsAgree == adder.pc = "done" => ct = TreeAfterAdd

\* No loop of Find, Remove or Match ever walks a cycle.
NoHang == ~last.hang

====
